---- MODULE Spec2Model ----
(***************************************************************************)
(* A model of the user-account service: the users table created by         *)
(* init_db.py, the UserModel store operations (app/models/user.py), the    *)
(* marshmallow schemas (app/schemas/user.py) and the Flask route handlers  *)
(* (app/routes/user.py).                                                   *)
(*                                                                         *)
(* Names are sequences of one-character strings, so that SQLite's LIKE can *)
(* be computed character by character.  Emails and passwords are strings.  *)
(* A JSON body is a function from field names to values; a missing body or *)
(* an empty object is the empty function <<>>.                             *)
(***************************************************************************)
EXTENDS Integers, Sequences, FiniteSets, TLC

VARIABLES
    users,      \* the rows of table users: records [id, name, email, password]
    seq,        \* sqlite_sequence for users: the largest rowid ever assigned
    req,        \* the request handled last
    resp,       \* the response to it: [status, body]
    called,     \* the UserModel method that request reached, or "none"
    issued,     \* every id a successful INSERT has returned so far
    pc,         \* concurrent create handlers: position of each
    creq,       \* concurrent create handlers: request body of each
    chash,      \* concurrent create handlers: bcrypt digest computed by each
    ctxn,       \* concurrent create handlers: uncommitted result of each one's INSERT
    cresp,      \* concurrent create handlers: response of each
    lock        \* holder of the database write lock, 0 when free

vars == <<users, seq, req, resp, called, issued, pc, creq, chash, ctxn, cresp, lock>>

concvars == <<pc, creq, chash, ctxn, cresp, lock>>

----------------------------------------------------------------------------
(* Bounds *)

\* creates are cut off once sqlite_sequence reaches MaxId
MaxId == 5

\* validate.Length(min=1) on name, validate.Length(min=6) on password
NameMinLen == 1
PasswordMinLen == 6

----------------------------------------------------------------------------
(* Values *)

JohnDoe == <<"J","o","h","n"," ","D","o","e">>
JaneSmith == <<"J","a","n","e"," ","S","m","i","t","h">>
BobJohnson == <<"B","o","b"," ","J","o","h","n","s","o","n">>
Ann == <<"A","n","n">>
Bo == <<"B","o">>

\* the salts bcrypt may draw
Salts == {"s1", "s2"}

\* names, emails and passwords that requests carry
ReqEmails == {"john@example.com", "ann@x.com", "not-an-email"}
LoginPasswords == {"password123", "abcdef", ""}
SearchNames == {<<>>, <<"o","h">>, <<"O","H">>, <<"%">>, <<"_">>, <<"z","z">>}
Ids == 1..MaxId

\* the salts init_db.py drew for the three sample users
SeedSalts == {<<"s1", "s2", "s1">>, <<"s2", "s2", "s1">>}

\* fields.Email: the syntactically valid addresses among the ones used
IsEmail(e) == e \in {"john@example.com", "jane@example.com", "bob@example.com", "ann@x.com", "bo@x.com"}

----------------------------------------------------------------------------
(* Password hasher (flask_bcrypt) *)

\* bcrypt.hashpw: the digest embeds the salt it was computed with
hashpw(password, salt) == [salt |-> salt, sum |-> <<salt, password>>]

generate_password_hash(password, salt) == hashpw(password, salt)

\* recomputes with the salt embedded in the digest and compares
check_password_hash(pw_hash, password) == hashpw(password, pw_hash.salt) = pw_hash

----------------------------------------------------------------------------
(* init_db.py *)

sample_users(s1, s2, s3) ==
    << [name |-> JohnDoe, email |-> "john@example.com", password |-> generate_password_hash("password123", s1)],
       [name |-> JaneSmith, email |-> "jane@example.com", password |-> generate_password_hash("secret456", s2)],
       [name |-> BobJohnson, email |-> "bob@example.com", password |-> generate_password_hash("qwerty789", s3)] >>

Max(a, b) == IF a >= b THEN a ELSE b

MaxRowid(tbl) == IF tbl = {} THEN 0 ELSE CHOOSE m \in {u.id : u \in tbl} : \A u \in tbl : u.id <= m

\* variant: id INTEGER PRIMARY KEY without AUTOINCREMENT, which reuses the
\* rowid of a deleted last row
RowidNoAutoincrement(tbl, sq) == MaxRowid(tbl) + 1

\* AUTOINCREMENT: rowid = max(sqlite_sequence, largest rowid in the table) + 1
NextRowid(tbl, sq) == Max(sq, MaxRowid(tbl)) + 1

\* variant: email declared without UNIQUE
InsertIgnoresUnique(tbl, email) == FALSE

\* email TEXT NOT NULL UNIQUE, seen by an INSERT of email
InsertViolatesUnique(tbl, email) == \E u \in tbl : u.email = email

\* INSERT INTO users (name, email, password) VALUES (?, ?, ?)
InsertUser(tbl, sq, name, email, hashed) ==
    IF InsertViolatesUnique(tbl, email)
    THEN [raise |-> "IntegrityError", users |-> tbl, seq |-> sq, lastrowid |-> 0]
    ELSE LET id == NextRowid(tbl, sq)
         IN  [raise |-> "none",
              users |-> tbl \cup {[id |-> id, name |-> name, email |-> email, password |-> hashed]},
              seq |-> id, lastrowid |-> id]

RECURSIVE executemany(_, _, _)
executemany(tbl, sq, rows) ==
    IF rows = <<>> THEN [users |-> tbl, seq |-> sq]
    ELSE LET r == InsertUser(tbl, sq, Head(rows).name, Head(rows).email, Head(rows).password)
         IN  executemany(r.users, r.seq, Tail(rows))

----------------------------------------------------------------------------
(* app/models/user.py *)

None == [none |-> TRUE]

\* Python truth of a fetched row: None is false, a row is true
Truthy(v) == "id" \in DOMAIN v

\* the rows of a query as a list, in rowid order
RECURSIVE fetchall(_)
fetchall(rows) ==
    IF rows = {} THEN <<>>
    ELSE LET m == CHOOSE u \in rows : \A v \in rows : u.id <= v.id
         IN  <<m>> \o fetchall(rows \ {m})

\* variant: SELECT *, which carries the password column too
SelectStar(u) == u

\* SELECT id, name, email
SelectIdNameEmail(u) == [id |-> u.id, name |-> u.name, email |-> u.email]

MapSeq(s) == [i \in 1..Len(s) |-> SelectIdNameEmail(s[i])]

get_all_users(tbl) == MapSeq(fetchall(tbl))

get_user_by_id(tbl, user_id) ==
    IF \E u \in tbl : u.id = user_id
    THEN SelectIdNameEmail(CHOOSE u \in tbl : u.id = user_id)
    ELSE None

UserModel_create_user(tbl, sq, name, email, password, salt) ==
    InsertUser(tbl, sq, name, email, generate_password_hash(password, salt))

\* variant: the email is compared with every row, the updated one included
UpdateUniqueCountsOwnRow(tbl, user_id, email) ==
    /\ \E u \in tbl : u.id = user_id
    /\ \E v \in tbl : v.email = email

\* variant: the email is compared before the WHERE clause selects a row
UpdateUniqueBeforeWhere(tbl, user_id, email) ==
    \E v \in tbl : v.id # user_id /\ v.email = email

\* the UNIQUE constraint as seen by UPDATE ... SET email = ? WHERE id = ?:
\* only a row the WHERE clause matched is rewritten and checked
UpdateViolatesUnique(tbl, user_id, email) ==
    /\ \E u \in tbl : u.id = user_id
    /\ \E v \in tbl : v.id # user_id /\ v.email = email

\* variant: the UPDATE also rewrites the password column
UpdateSetResetsPassword(tbl, user_id, name, email) ==
    {IF u.id = user_id THEN [u EXCEPT !.name = name, !.email = email, !.password = hashpw("", "s1")] ELSE u : u \in tbl}

\* the rows after UPDATE users SET name = ?, email = ? WHERE id = ?
UpdateSet(tbl, user_id, name, email) ==
    {IF u.id = user_id THEN [u EXCEPT !.name = name, !.email = email] ELSE u : u \in tbl}

UserModel_update_user(tbl, user_id, name, email) ==
    IF UpdateViolatesUnique(tbl, user_id, email)
    THEN [raise |-> "IntegrityError", users |-> tbl, ret |-> FALSE]
    ELSE [raise |-> "none",
          users |-> UpdateSet(tbl, user_id, name, email),
          ret |-> Cardinality({u \in tbl : u.id = user_id}) > 0]

UserModel_delete_user(tbl, user_id) ==
    [users |-> {u \in tbl : u.id # user_id},
     ret |-> Cardinality({u \in tbl : u.id = user_id}) > 0]

\* ASCII case folding of SQLite's LIKE
ToLower == [A |-> "a", B |-> "b", D |-> "d", H |-> "h", J |-> "j", O |-> "o", S |-> "s"]
Lower(c) == IF c \in DOMAIN ToLower THEN ToLower[c] ELSE c

\* str LIKE pat: % matches any run of characters, _ any one character
RECURSIVE Like(_, _)
Like(pat, str) ==
    IF pat = <<>> THEN str = <<>>
    ELSE IF Head(pat) = "%" THEN Like(Tail(pat), str) \/ (str # <<>> /\ Like(pat, Tail(str)))
    ELSE IF str = <<>> THEN FALSE
    ELSE IF Head(pat) = "_" THEN Like(Tail(pat), Tail(str))
    ELSE Lower(Head(pat)) = Lower(Head(str)) /\ Like(Tail(pat), Tail(str))

search_users(tbl, name) ==
    MapSeq(fetchall({u \in tbl : Like(<<"%">> \o name \o <<"%">>, u.name)}))

\* variant: a wrong password is reported apart from an unknown email
verify_login_distinguishes(tbl, email, password) ==
    IF \E u \in tbl : u.email = email
    THEN LET user == CHOOSE u \in tbl : u.email = email
         IN  IF check_password_hash(user.password, password) THEN user
             ELSE [none |-> TRUE, wrong_password |-> TRUE]
    ELSE None

verify_login(tbl, email, password) ==
    IF \E u \in tbl : u.email = email
    THEN LET user == CHOOSE u \in tbl : u.email = email
         IN  IF check_password_hash(user.password, password) THEN user ELSE None
    ELSE None

----------------------------------------------------------------------------
(* app/schemas/user.py: the fields each schema rejects *)

Has(data, f) == f \in DOMAIN data

UserSchema_errors(data) ==
    {f \in {"name", "email", "password"} : ~Has(data, f)}
    \cup {f \in {"name"} : Has(data, f) /\ Len(data[f]) < NameMinLen}
    \cup {f \in {"email"} : Has(data, f) /\ ~IsEmail(data[f])}
    \cup {f \in {"password"} : Has(data, f) /\ Len(data[f]) < PasswordMinLen}

UserUpdateSchema_errors(data) ==
    {f \in {"name", "email"} : ~Has(data, f)}
    \cup {f \in {"name"} : Has(data, f) /\ Len(data[f]) < NameMinLen}
    \cup {f \in {"email"} : Has(data, f) /\ ~IsEmail(data[f])}

\* variant: password declared with validate.Length(min=1)
LoginSchemaRequiresNonEmpty(data) ==
    {f \in {"email", "password"} : ~Has(data, f)}
    \cup {f \in {"email"} : Has(data, f) /\ ~IsEmail(data[f])}
    \cup {f \in {"password"} : Has(data, f) /\ Len(data[f]) < 1}

\* password = fields.Str(required=True): any string, the empty one included
LoginSchema_errors(data) ==
    {f \in {"email", "password"} : ~Has(data, f)}
    \cup {f \in {"email"} : Has(data, f) /\ ~IsEmail(data[f])}

----------------------------------------------------------------------------
(* app/routes/user.py: request bodies *)

NoData == <<>>

CreateBodies ==
    {NoData, [name |-> Ann],
     [name |-> <<>>, email |-> "ann@x.com", password |-> "abcdef"],
     [name |-> Ann, email |-> "ann@x.com", password |-> "abc"]}
    \cup {[name |-> Ann, email |-> e, password |-> "abcdef"] : e \in ReqEmails}

UpdateBodies ==
    {NoData} \cup {[name |-> Ann, email |-> e] : e \in ReqEmails}

LoginBodies ==
    {NoData, [email |-> "john@example.com"]}
    \cup {[email |-> e, password |-> p] : e \in ReqEmails, p \in LoginPasswords}

SearchArgs == {NoData} \cup {[name |-> n] : n \in SearchNames}

Response(status, body) == [status |-> status, body |-> body]

ValidationErrorResponse(fields) ==
    Response(400, [error |-> "Validation error", messages |-> fields])

NoInputResponse == Response(400, [error |-> "No input data provided"])

LoginFailedResponse == Response(401, [status |-> "failed", error |-> "Invalid credentials"])

----------------------------------------------------------------------------
(* app/routes/user.py: handlers, one request each *)

home ==
    /\ req' = [op |-> "home", user_id |-> 0, data |-> NoData]
    /\ resp' = Response(200, [message |-> "User Management System"])
    /\ called' = "none"
    /\ UNCHANGED <<users, seq, issued>>
    /\ UNCHANGED concvars

get_all_users_route ==
    /\ req' = [op |-> "get_all_users", user_id |-> 0, data |-> NoData]
    /\ resp' = Response(200, get_all_users(users))
    /\ called' = "get_all_users"
    /\ UNCHANGED <<users, seq, issued>>
    /\ UNCHANGED concvars

get_user ==
    \E user_id \in Ids :
        LET user == get_user_by_id(users, user_id)
        IN  /\ req' = [op |-> "get_user", user_id |-> user_id, data |-> NoData]
            /\ resp' = IF Truthy(user) THEN Response(200, user)
                       ELSE Response(404, [error |-> "User not found"])
            /\ called' = "get_user_by_id"
            /\ UNCHANGED <<users, seq, issued>>
            /\ UNCHANGED concvars

create_user ==
    \E data \in CreateBodies, salt \in Salts :
        /\ req' = [op |-> "create_user", user_id |-> 0, data |-> data]
        /\ IF data = NoData
           THEN /\ resp' = NoInputResponse
                /\ called' = "none"
                /\ UNCHANGED <<users, seq, issued>>
           ELSE IF UserSchema_errors(data) # {}
           THEN /\ resp' = ValidationErrorResponse(UserSchema_errors(data))
                /\ called' = "none"
                /\ UNCHANGED <<users, seq, issued>>
           ELSE LET r == UserModel_create_user(users, seq, data.name, data.email, data.password, salt)
                IN  /\ called' = "create_user"
                    /\ IF r.raise = "IntegrityError"
                       THEN /\ resp' = Response(409, [error |-> "User with this email already exists"])
                            /\ UNCHANGED <<users, seq, issued>>
                       ELSE /\ seq < MaxId
                            /\ resp' = Response(201, [message |-> "User created successfully", user_id |-> r.lastrowid])
                            /\ users' = r.users
                            /\ seq' = r.seq
                            /\ issued' = issued \cup {r.lastrowid}
        /\ UNCHANGED concvars

update_user ==
    \E user_id \in Ids, data \in UpdateBodies :
        /\ req' = [op |-> "update_user", user_id |-> user_id, data |-> data]
        /\ IF data = NoData
           THEN /\ resp' = NoInputResponse
                /\ called' = "none"
                /\ UNCHANGED users
           ELSE IF UserUpdateSchema_errors(data) # {}
           THEN /\ resp' = ValidationErrorResponse(UserUpdateSchema_errors(data))
                /\ called' = "none"
                /\ UNCHANGED users
           ELSE LET r == UserModel_update_user(users, user_id, data.name, data.email)
                IN  /\ called' = "update_user"
                    /\ IF r.raise = "IntegrityError"
                       THEN /\ resp' = Response(409, [error |-> "Email already in use"])
                            /\ UNCHANGED users
                       ELSE /\ users' = r.users
                            /\ resp' = IF r.ret THEN Response(200, [message |-> "User updated successfully"])
                                       ELSE Response(404, [error |-> "User not found"])
        /\ UNCHANGED <<seq, issued>>
        /\ UNCHANGED concvars

delete_user ==
    \E user_id \in Ids :
        LET r == UserModel_delete_user(users, user_id)
        IN  /\ req' = [op |-> "delete_user", user_id |-> user_id, data |-> NoData]
            /\ called' = "delete_user"
            /\ users' = r.users
            /\ resp' = IF r.ret THEN Response(200, [message |-> "User deleted successfully"])
                       ELSE Response(404, [error |-> "User not found"])
            /\ UNCHANGED <<seq, issued>>
            /\ UNCHANGED concvars

search_users_route ==
    \E args \in SearchArgs :
        /\ req' = [op |-> "search_users", user_id |-> 0, data |-> args]
        /\ IF ~Has(args, "name") \/ args.name = <<>>
           THEN /\ resp' = Response(400, [error |-> "Please provide a name to search"])
                /\ called' = "none"
           ELSE /\ resp' = Response(200, search_users(users, args.name))
                /\ called' = "search_users"
        /\ UNCHANGED <<users, seq, issued>>
        /\ UNCHANGED concvars

login ==
    \E data \in LoginBodies :
        /\ req' = [op |-> "login", user_id |-> 0, data |-> data]
        /\ IF data = NoData
           THEN /\ resp' = NoInputResponse
                /\ called' = "none"
           ELSE IF LoginSchema_errors(data) # {}
           THEN /\ resp' = ValidationErrorResponse(LoginSchema_errors(data))
                /\ called' = "none"
           ELSE LET user == verify_login(users, data.email, data.password)
                IN  /\ called' = "verify_login"
                    /\ resp' = IF Truthy(user)
                               THEN Response(200, [status |-> "success", user_id |-> user.id, message |-> "Login successful"])
                               ELSE LoginFailedResponse
        /\ UNCHANGED <<users, seq, issued>>
        /\ UNCHANGED concvars

----------------------------------------------------------------------------
(* The service handling one request at a time, from the table init_db.py leaves *)

Procs == {1, 2}

Idle ==
    /\ pc = [p \in Procs |-> "idle"]
    /\ creq = [p \in Procs |-> NoData]
    /\ chash = [p \in Procs |-> NoData]
    /\ ctxn = [p \in Procs |-> NoData]
    /\ cresp = [p \in Procs |-> NoData]
    /\ lock = 0

InitTable ==
    \E s \in SeedSalts :
        LET db == executemany({}, 0, sample_users(s[1], s[2], s[3]))
        IN  /\ users = db.users
            /\ seq = db.seq
            /\ issued = {u.id : u \in db.users}

Init ==
    /\ InitTable
    /\ req = [op |-> "none", user_id |-> 0, data |-> NoData]
    /\ resp = Response(0, NoData)
    /\ called = "none"
    /\ Idle

Next ==
    \/ home
    \/ get_all_users_route
    \/ get_user
    \/ create_user
    \/ update_user
    \/ delete_user
    \/ search_users_route
    \/ login

Spec == Init /\ [][Next]_vars

----------------------------------------------------------------------------
(* Two POST /users requests handled concurrently, each by its own handler   *)
(* with its own connection.  SQLite admits one writer at a time: the INSERT *)
(* of UserModel.create_user takes the write lock and holds it until         *)
(* conn.commit(); another connection's INSERT waits for the lock (the       *)
(* sqlite3 busy handler) and then runs against the committed table.         *)

ConcNames == {Ann, Bo}
ConcEmails == {"ann@x.com", "bo@x.com", "john@example.com"}

ConcBodies ==
    {d \in {[name |-> n, email |-> e, password |-> "abcdef"] : n \in ConcNames, e \in ConcEmails} :
        UserSchema_errors(d) = {}}

\* variant: a store that lets two connections write at once
WriteLockIgnored(holder) == TRUE

\* whether a connection may start writing while `holder` holds the lock
WriteLockFree(holder) == holder = 0

InitC ==
    /\ InitTable
    /\ req = [op |-> "none", user_id |-> 0, data |-> NoData]
    /\ resp = Response(0, NoData)
    /\ called = "none"
    /\ pc = [p \in Procs |-> "start"]
    /\ creq \in [Procs -> ConcBodies]
    /\ chash = [p \in Procs |-> NoData]
    /\ ctxn = [p \in Procs |-> NoData]
    /\ cresp = [p \in Procs |-> NoData]
    /\ lock = 0

\* hashed_password = bcrypt.generate_password_hash(password)
c_hash(p) ==
    /\ pc[p] = "start"
    /\ \E salt \in Salts :
        chash' = [chash EXCEPT ![p] = generate_password_hash(creq[p].password, salt)]
    /\ pc' = [pc EXCEPT ![p] = "hashed"]
    /\ UNCHANGED <<users, seq, req, resp, called, issued, creq, ctxn, cresp, lock>>

\* cursor.execute("INSERT ..."): IntegrityError leaves the with block, which
\* rolls back, and the route answers 409
c_insert(p) ==
    /\ pc[p] = "hashed"
    /\ WriteLockFree(lock)
    /\ LET r == InsertUser(users, seq, creq[p].name, creq[p].email, chash[p])
       IN  IF r.raise = "IntegrityError"
           THEN /\ cresp' = [cresp EXCEPT ![p] =
                        Response(409, [error |-> "User with this email already exists"])]
                /\ pc' = [pc EXCEPT ![p] = "done"]
                /\ UNCHANGED <<ctxn, lock>>
           ELSE /\ ctxn' = [ctxn EXCEPT ![p] = r]
                /\ lock' = p
                /\ pc' = [pc EXCEPT ![p] = "inserted"]
                /\ UNCHANGED cresp
    /\ UNCHANGED <<users, seq, req, resp, called, issued, creq, chash>>

\* conn.commit(); return cursor.lastrowid; the route answers 201
c_commit(p) ==
    /\ pc[p] = "inserted"
    /\ users' = ctxn[p].users
    /\ seq' = ctxn[p].seq
    /\ issued' = issued \cup {ctxn[p].lastrowid}
    /\ lock' = 0
    /\ cresp' = [cresp EXCEPT ![p] =
            Response(201, [message |-> "User created successfully", user_id |-> ctxn[p].lastrowid])]
    /\ pc' = [pc EXCEPT ![p] = "done"]
    /\ UNCHANGED <<req, resp, called, creq, chash, ctxn>>

NextC == \E p \in Procs : c_hash(p) \/ c_insert(p) \/ c_commit(p)

SpecC == InitC /\ [][NextC]_vars

----------------------------------------------------------------------------
(* Properties *)

ValidCreate(r) == r.op = "create_user" /\ r.data # NoData /\ UserSchema_errors(r.data) = {}
ValidUpdate(r) == r.op = "update_user" /\ r.data # NoData /\ UserUpdateSchema_errors(r.data) = {}
ValidLogin(r) == r.op = "login" /\ r.data # NoData /\ LoginSchema_errors(r.data) = {}

UniqueEmails == \A u, v \in users : u.email = v.email => u = v

EmailHeld(tbl, email) == \E u \in tbl : u.email = email
EmailHeldByOther(tbl, user_id, email) == \E v \in tbl : v.id # user_id /\ v.email = email
IdExists(tbl, user_id) == \E u \in tbl : u.id = user_id

C1_Step ==
    /\ UniqueEmails'
    /\ (ValidCreate(req') /\ EmailHeld(users, req'.data.email))
            => (resp'.status = 409 /\ users' = users)
    /\ (ValidUpdate(req') /\ IdExists(users, req'.user_id)
            /\ EmailHeldByOther(users, req'.user_id, req'.data.email))
            => (resp'.status = 409 /\ users' = users)

\* C1: no two rows of users ever have the same email, and a create or update
\* that would give two rows the same email is answered 409 and changes nothing.
C1_EmailUnique == UniqueEmails /\ [][C1_Step]_vars

\* C1 witness: a create for an email the table already held was answered 409
C1_Witness ==
    /\ req.op = "create_user"
    /\ resp.status = 409
    /\ Cardinality({u \in users : u.email = req.data.email}) = 1

InitEmails == {"john@example.com", "jane@example.com", "bob@example.com"}

BothDone == \A p \in Procs : pc[p] = "done"

RowsWithEmail(list, email) == {k \in 1..Len(list) : list[k].email = email}

\* C2: two concurrent creates with the same email, which the table did not hold:
\* once both are answered, one got 201 and the other 409, and list_all has
\* exactly one row with that email.
C2_OneWinner ==
    (BothDone /\ creq[1].email = creq[2].email /\ creq[1].email \notin InitEmails)
        => /\ \E p \in Procs, q \in Procs :
                p # q /\ cresp[p].status = 201 /\ cresp[q].status = 409
           /\ Cardinality(RowsWithEmail(get_all_users(users), creq[1].email)) = 1

\* C2 witness: both requests carried the same new email and the second handler won
C2_Witness ==
    /\ BothDone
    /\ creq[1].email = creq[2].email
    /\ creq[1].email \notin InitEmails
    /\ cresp[2].status = 201
    /\ cresp[1].status = 409

\* C3: the id a successful create returns is greater than every id issued before.
C3_IdsIncrease ==
    [][(req'.op = "create_user" /\ resp'.status = 201)
        => \A i \in issued : resp'.body.user_id > i]_vars

\* C3 witness: a create returned 5 after user 4, the highest id, had been deleted
C3_Witness ==
    /\ req.op = "create_user"
    /\ resp.status = 201
    /\ resp.body.user_id = 5
    /\ ~IdExists(users, 4)
    /\ 4 \in issued

\* C4: a valid update of an id that matches no row is answered 404 and leaves
\* the table unchanged, whatever name and email it carries.
C4_UpdateMissing ==
    [][(ValidUpdate(req') /\ ~IdExists(users, req'.user_id))
        => (resp'.status = 404 /\ users' = users /\ called' = "update_user")]_vars

\* C4 witness: an update of a missing id, with an email another user holds, got 404
C4_Witness ==
    /\ req.op = "update_user"
    /\ resp.status = 404
    /\ EmailHeld(users, req.data.email)

\* C5: a valid update of an existing id is answered 409 exactly when the new email
\* is held by a different user, and then the table is unchanged; otherwise it
\* succeeds.
C5_UpdateConflict ==
    [][(ValidUpdate(req') /\ IdExists(users, req'.user_id))
        => LET clash == EmailHeldByOther(users, req'.user_id, req'.data.email)
           IN  /\ (resp'.status = 409) <=> clash
               /\ clash => users' = users
               /\ ~clash => resp'.status = 200]_vars

\* C5 witness: an update to another user's email was answered 409
C5_Witness ==
    /\ req.op = "update_user"
    /\ resp.status = 409
    /\ IdExists(users, req.user_id)
    /\ EmailHeldByOther(users, req.user_id, req.data.email)

AllPasswords == LoginPasswords \cup {"secret456", "qwerty789"}

\* C6: a successful update changes only the name and email of the row with that
\* id; a password that logged the user in before logs in afterwards under the
\* new email.
C6_UpdateFrame ==
    [][(req'.op = "update_user" /\ resp'.status = 200)
        => \E old \in users :
            LET new == [id |-> old.id, name |-> req'.data.name,
                        email |-> req'.data.email, password |-> old.password]
            IN  /\ old.id = req'.user_id
                /\ users' = (users \ {old}) \cup {new}
                /\ \A pw \in AllPasswords :
                       verify_login(users, old.email, pw) = old
                           => verify_login(users', new.email, pw) = new]_vars

\* C6 witness: user 1 was renamed and moved to a new email and the seeded
\* password still logs in
C6_Witness ==
    /\ req.op = "update_user"
    /\ resp.status = 200
    /\ req.user_id = 1
    /\ \E u \in users :
        /\ u.id = 1 /\ u.name = Ann /\ u.email = "ann@x.com"
        /\ verify_login(users, "ann@x.com", "password123") = u

\* the rows whose email is `email` and whose stored digest is a digest of `password`
Matching(tbl, email, password) ==
    {u \in tbl : u.email = email /\ \E salt \in Salts : u.password = hashpw(password, salt)}

\* C7: a login with an unknown email and one with a wrong password get the same
\* outcome (the store's not-found value, 401 with the one failure body), the
\* table is unchanged, and only an email with its own password returns the user.
C7_LoginFailureUniform ==
    [][ValidLogin(req')
        => LET m == Matching(users, req'.data.email, req'.data.password)
               v == verify_login(users, req'.data.email, req'.data.password)
           IN  /\ users' = users
               /\ IF m # {}
                  THEN /\ v \in m
                       /\ resp'.status = 200
                       /\ resp'.body.user_id = v.id
                  ELSE /\ v = None
                       /\ resp' = LoginFailedResponse]_vars

\* C7 witness: a known email with a wrong password was answered 401
C7_Witness ==
    /\ req.op = "login"
    /\ resp = LoginFailedResponse
    /\ EmailHeld(users, req.data.email)
    /\ req.data.password # ""

\* C8 as claimed: a login whose password is present but empty is answered 400
\* before any store operation is called.
C8_EmptyPasswordRejected ==
    (req.op = "login" /\ Has(req.data, "password") /\ req.data.password = "")
        => (resp.status = 400 /\ called = "none")

\* C8: a login without a password field is answered 400 before any store
\* operation; one whose password is present but empty, with a valid email,
\* passes validation, reaches verify_login and is answered 401.
C8_EmptyPasswordReachesStore ==
    (req.op = "login" /\ req.data # NoData)
        => /\ ~Has(req.data, "password") => (resp.status = 400 /\ called = "none")
           /\ (Has(req.data, "password") /\ req.data.password = "" /\ IsEmail(req.data.email))
                => (called = "verify_login" /\ resp = LoginFailedResponse)

\* C8 witness: a login with an empty password reached verify_login and got 401
C8_Witness ==
    /\ req.op = "login"
    /\ Has(req.data, "password")
    /\ req.data.password = ""
    /\ called = "verify_login"
    /\ resp.status = 401

LowerSeq(str) == [i \in 1..Len(str) |-> Lower(str[i])]

\* s occurs in str as a run of consecutive characters
Contains(str, s) ==
    \E i \in 0..(Len(str) - Len(s)) : \A k \in 1..Len(s) : str[i + k] = s[k]

LiteralSearch(tbl, s) ==
    get_all_users({u \in tbl : Contains(LowerSeq(u.name), LowerSeq(s))})

\* C9: search_by_name(s) returns exactly the users whose name contains s as a
\* literal substring, case-insensitively, also when s contains % or _.
C9_SearchLiteral == \A s \in SearchNames : search_users(users, s) = LiteralSearch(users, s)

PublicFields == {"id", "name", "email"}

C10_Step ==
    /\ (req'.op = "create_user" /\ resp'.status = 201)
        => get_user_by_id(users', resp'.body.user_id)
            = [id |-> resp'.body.user_id, name |-> req'.data.name, email |-> req'.data.email]
    /\ \A i \in Ids :
        (Truthy(get_user_by_id(users, i))
            /\ ~(req'.op \in {"update_user", "delete_user"} /\ req'.user_id = i))
        => get_user_by_id(users', i) = get_user_by_id(users, i)
    /\ \A i \in Ids : DOMAIN get_user_by_id(users', i) \in {PublicFields, DOMAIN None}
    /\ (req'.op = "get_user" /\ resp'.status = 200) => DOMAIN resp'.body = PublicFields
    /\ (req'.op \in {"get_all_users", "search_users"} /\ resp'.status = 200)
        => \A k \in 1..Len(resp'.body) : DOMAIN resp'.body[k] = PublicFields

\* C10: after a create succeeds with id i, get_by_id(i) returns id i with the
\* name and email created, until an update or delete of i; and the responses
\* of get_by_id, list_all and search_by_name carry only id, name and email.
C10_ReadBack == [][C10_Step]_vars

\* C10 witness: the user created with id 4 was fetched by id
C10_Witness ==
    /\ req.op = "get_user"
    /\ resp.status = 200
    /\ resp.body = [id |-> 4, name |-> Ann, email |-> "ann@x.com"]

====
